---- MODULE Spec2Model ----
(***************************************************************************)
(* Branch-coverage middleware of the EVM fuzzer                            *)
(* (src/src/evm/middlewares/branch_coverage.rs):                           *)
(*   branch_pc               the static scan of a contract's bytecode      *)
(*   BranchCoverage          the tracker: five maps keyed by address and   *)
(*                           the report directory                          *)
(*   on_step                 hook run before every executed instruction    *)
(*   on_insert               hook run when a contract's code is installed  *)
(*   record_branch_coverage  renders the report                            *)
(* Offsets are 0-based as in the source; TLA+ sequences are 1-based, so    *)
(* byte i of a buffer b is b[i + 1].                                       *)
(***************************************************************************)
EXTENDS Integers, Sequences, FiniteSets, TLC

\* ------------------------------------------------------------------ bounds

\* Longest byte buffer handed to the scanner in ScanSpec.
MaxLen == 4

\* Most hook calls (on_step, on_insert, record_branch_coverage) of one run.
MaxCalls == 3

\* ------------------------------------------------------- program constants

\* Opcode of the single-outcome control transfer (0x56).
JUMP == 86

\* Opcode of the two-outcome control transfer (0x57).
JUMPI == 87

\* First and last opcode of the push range (0x60, 0x7f).
PUSH1 == 96

PUSH32 == 127

\* ----------------------------------------------------------------- inputs

\* Byte values the scanned buffers are built from: STOP, JUMP, JUMPI, the
\* byte just below the push range (0x5f), PUSH1, PUSH2 and PUSH32.
ByteVals == {0, JUMP, JUMPI, 95, PUSH1, 97, PUSH32}

RECURSIVE SeqsOfLen(_, _)
SeqsOfLen(S, n) ==
    IF n = 0 THEN {<<>>}
    ELSE {Append(s, x) : s \in SeqsOfLen(S, n - 1), x \in S}

ByteSeqs == UNION {SeqsOfLen(ByteVals, n) : n \in 0..MaxLen}

\* The two contract addresses of the runs.
Address == {"X", "Y"}

\* Offsets of the executed instructions and of the jump destinations: those
\* of Scenario A.
Offsets == {5, 10, 20}

\* A 256-bit stack word as its low 64-bit limb and the rest above it.
StackWords == {[lo |-> d, hi |-> 0] : d \in Offsets} \cup {[lo |-> 5, hi |-> 1]}

\* Operand stacks presented to on_step, top of stack last: the empty stack
\* and the stacks of one word.
Stacks == {<<>>} \cup {<<w>> : w \in StackWords}

\* What the interpreter presents to on_step, opcode and operand stack: a
\* JUMPI on every stack, a JUMP with its destination on the stack, and one
\* other opcode (STOP) on the empty stack.
Presented ==
    {[opcode |-> JUMPI, stack |-> s] : s \in Stacks}
        \cup {[opcode |-> JUMP, stack |-> <<[lo |-> 5, hi |-> 0]>>],
              [opcode |-> 0, stack |-> <<>>]}

\* Scenario A's code: STOPs with one JUMP at offset 10 and one JUMPI at 20.
ScenarioCode == [k \in 1..21 |-> IF k = 11 THEN JUMP ELSE IF k = 21 THEN JUMPI ELSE 0]

\* Bytecodes the host installs: the empty code, Scenario A's code, and a
\* code whose PUSH1 operand is a JUMP byte, followed by two JUMPIs.
Codes == {<<>>, ScenarioCode, <<PUSH1, JUMP, JUMPI, JUMPI>>}

\* The report directory the host is configured with.
WorkDirs == {"out"}

\* Readings of the system clock, in seconds since the epoch.
Seconds == {0, 1}

\* ------------------------------------------------------------------ state

VARIABLES
    pc_coverage,        \* address -> set of executed offsets
    total_instr,        \* address -> discovered-branch total
    total_instr_set,    \* address -> set of discovered branch offsets
    total_jump_branch,  \* address -> JUMP count of the installed code
    total_jumpi_branch, \* address -> 2 * JUMPI count of the installed code
    work_dir,           \* directory the reports are written to
    host_code,          \* address -> bytecode last installed by the host
    report,             \* outcome of record_branch_coverage when it was the last call
    aborted,            \* a hook panicked: the process is gone
    files,              \* file system: path -> the text last written and the stale bytes after it
    calls,              \* hook calls made so far
    scan,               \* branch_pc's frame: bytes, i, op, the counters, position
    interp              \* the interpreter as the last on_step call left it

vars ==
    <<pc_coverage, total_instr, total_instr_set, total_jump_branch,
      total_jumpi_branch, work_dir, host_code, report, files, aborted, calls, scan,
      interp>>

tracker ==
    <<pc_coverage, total_instr, total_instr_set, total_jump_branch,
      total_jumpi_branch, work_dir>>

\* ------------------------------------------------------------ map helpers

\* Option<T> as a set of at most one element.
None == {}

Some(x) == {x}

\* Option::unwrap of a Some
Unwrap(o) == CHOOSE x \in o : TRUE

\* HashMap::new()
EmptyMap == [k \in {} |-> 0]

\* HashMap::get
Get(m, k) == IF k \in DOMAIN m THEN Some(m[k]) ELSE None

\* HashMap::insert
Insert(m, k, v) == [x \in DOMAIN m \cup {k} |-> IF x = k THEN v ELSE m[x]]

\* EntryInsert with the entry overwritten by the one new element.
EntryInsertReplace(m, k, v) == Insert(m, k, {v})

\* EntryInsert on a map emptied of its other keys first.
EntryInsertAlone(m, k, v) ==
    [x \in {k} |-> (IF k \in DOMAIN m THEN m[k] ELSE {}) \cup {v}]

\* map.entry(k).or_default().insert(v) on a map of sets
EntryInsert(m, k, v) == Insert(m, k, (IF k \in DOMAIN m THEN m[k] ELSE {}) \cup {v})

\* ---------------------------------------------------------------- branch_pc

\* The frame of branch_pc on entry to its loop.
ScanStart(bytecode) ==
    [bytes |-> bytecode, i |-> 0, op |-> 0, JUMPCount |-> 0, JUMPICount |-> 0,
     at |-> "while"]

\* The frame while no scan is running.
ScanIdle == [ScanStart(<<>>) EXCEPT !.at = "idle"]

\* LoopCond with <= for <.
LoopCondInclusive(st) == st.i <= Len(st.bytes)

\* while i < bytes.len()
LoopCond(st) == st.i < Len(st.bytes)

\* bytes.get(k)
BytesGet(b, k) == IF k < Len(b) THEN Some(b[k + 1]) ELSE None

\* let op = *bytes.get(i).unwrap(); i += 1;
Fetch(st) ==
    LET got == BytesGet(st.bytes, st.i)
    IN  IF got = None
        THEN [st EXCEPT !.at = "panic"]
        ELSE [st EXCEPT !.op = Unwrap(got), !.i = st.i + 1, !.at = "decode"]

\* IsPush with > for >= at the lower end.
IsPushExclusive(o) == o > PUSH1 /\ o <= PUSH32

\* op >= 0x60 && op <= 0x7f
IsPush(o) == o >= PUSH1 /\ o <= PUSH32

\* PushSkip with 0x5e for 0x5f.
PushSkipOffByOne(o) == o - 94

\* op as usize - 0x5f
PushSkip(o) == o - 95

\* The rest of the loop body: skip a push's operand, or count a JUMP/JUMPI.
Decode(st) ==
    IF IsPush(st.op)
    THEN [st EXCEPT !.i = st.i + PushSkip(st.op), !.at = "while"]
    ELSE IF st.op = JUMP
    THEN [st EXCEPT !.JUMPCount = st.JUMPCount + 1, !.at = "while"]
    ELSE IF st.op = JUMPI
    THEN [st EXCEPT !.JUMPICount = st.JUMPICount + 2, !.at = "while"]
    ELSE [st EXCEPT !.at = "while"]

\* One step of branch_pc from frame st.
ScanStep(st) ==
    IF st.at = "while"
    THEN IF LoopCond(st) THEN Fetch(st) ELSE [st EXCEPT !.at = "done"]
    ELSE IF st.at = "decode" THEN Decode(st)
    ELSE st

RECURSIVE ScanRun(_)
ScanRun(st) == IF st.at \in {"done", "panic"} THEN st ELSE ScanRun(ScanStep(st))

\* branch_pc(bytecode): Some((JUMPCount, JUMPICount)), or None when it panics.
branch_pc(bytecode) ==
    LET r == ScanRun(ScanStart(bytecode))
    IN  IF r.at = "panic" THEN None ELSE Some(<<r.JUMPCount, r.JUMPICount>>)

\* ------------------------------------------------------------------ on_step

\* as_u64: the low 64-bit limb of a 256-bit word.
as_u64(w) == w.lo

\* interp.stack.peek(0): the top word, or None (an Err) on an empty stack.
Peek0(stack) == IF Len(stack) = 0 THEN None ELSE Some(stack[Len(stack)])

\* JumpArm without the assignment total_brash = total + 1.
JumpArmNoIncrement(address, pc) ==
    LET set == Get(total_instr_set, address)
        loc == [panic |-> FALSE, is_insert |-> FALSE, is_insert_jumpi |-> FALSE,
                total_brash |-> 1, jmppc |-> 0]
    IN  IF set = None \/ pc \notin Unwrap(set)
        THEN [loc EXCEPT !.is_insert = TRUE]
        ELSE loc

\* JumpArm without the contains(&pc) test: a known offset is counted again.
JumpArmNoContains(address, pc) ==
    LET set == Get(total_instr_set, address)
        tot == Get(total_instr, address)
        loc == [panic |-> FALSE, is_insert |-> FALSE, is_insert_jumpi |-> FALSE,
                total_brash |-> 1, jmppc |-> 0]
    IN  IF set = None
        THEN [loc EXCEPT !.is_insert = TRUE]
        ELSE IF tot = None
        THEN [loc EXCEPT !.panic = TRUE]
        ELSE [loc EXCEPT !.total_brash = Unwrap(tot) + 1, !.is_insert = TRUE]

\* The JUMP arm: the locals is_insert and total_brash it leaves.
JumpArm(address, pc) ==
    LET set == Get(total_instr_set, address)
        tot == Get(total_instr, address)
        loc == [panic |-> FALSE, is_insert |-> FALSE, is_insert_jumpi |-> FALSE,
                total_brash |-> 1, jmppc |-> 0]
    IN  IF set = None
        THEN [loc EXCEPT !.is_insert = TRUE]
        ELSE IF pc \notin Unwrap(set)
        THEN IF tot = None
             THEN [loc EXCEPT !.panic = TRUE]
             ELSE [loc EXCEPT !.total_brash = Unwrap(tot) + 1, !.is_insert = TRUE]
        ELSE loc

\* JumpiArm without the assignment total_brash = 2 for a fresh address.
JumpiArmFreshOne(address, pc, stack) ==
    LET top == Peek0(stack)
        set == Get(total_instr_set, address)
        tot == Get(total_instr, address)
        loc == [panic |-> FALSE, is_insert |-> FALSE, is_insert_jumpi |-> FALSE,
                total_brash |-> 1, jmppc |-> 0]
    IN  IF top = None
        THEN [loc EXCEPT !.panic = TRUE]
        ELSE LET dest == as_u64(Unwrap(top))
             IN  IF set = None
                 THEN [loc EXCEPT !.jmppc = dest, !.is_insert = TRUE,
                                  !.is_insert_jumpi = TRUE]
                 ELSE IF tot = None
                 THEN [loc EXCEPT !.jmppc = dest, !.panic = TRUE]
                 ELSE [loc EXCEPT !.jmppc = dest,
                                  !.total_brash = Unwrap(tot) + 2,
                                  !.is_insert = pc \notin Unwrap(set),
                                  !.is_insert_jumpi = dest \notin Unwrap(set)]

\* JumpiArm without the contains(&jmppc) test: a known destination is
\* counted again.
JumpiArmNoContains(address, pc, stack) ==
    LET top == Peek0(stack)
        set == Get(total_instr_set, address)
        tot == Get(total_instr, address)
        loc == [panic |-> FALSE, is_insert |-> FALSE, is_insert_jumpi |-> FALSE,
                total_brash |-> 1, jmppc |-> 0]
    IN  IF top = None
        THEN [loc EXCEPT !.panic = TRUE]
        ELSE LET dest == as_u64(Unwrap(top))
             IN  IF set = None
                 THEN [loc EXCEPT !.jmppc = dest, !.is_insert = TRUE,
                                  !.is_insert_jumpi = TRUE, !.total_brash = 2]
                 ELSE IF tot = None
                 THEN [loc EXCEPT !.jmppc = dest, !.panic = TRUE]
                 ELSE [loc EXCEPT !.jmppc = dest,
                                  !.total_brash = Unwrap(tot) + 2,
                                  !.is_insert = pc \notin Unwrap(set),
                                  !.is_insert_jumpi = TRUE]

\* The JUMPI arm: the locals jmppc, is_insert, is_insert_jumpi and
\* total_brash it leaves.
JumpiArm(address, pc, stack) ==
    LET top == Peek0(stack)
        set == Get(total_instr_set, address)
        tot == Get(total_instr, address)
        loc == [panic |-> FALSE, is_insert |-> FALSE, is_insert_jumpi |-> FALSE,
                total_brash |-> 1, jmppc |-> 0]
    IN  IF top = None
        THEN [loc EXCEPT !.panic = TRUE]
        ELSE LET dest == as_u64(Unwrap(top))
             IN  IF set = None
                 THEN [loc EXCEPT !.jmppc = dest, !.is_insert = TRUE,
                                  !.is_insert_jumpi = TRUE, !.total_brash = 2]
                 ELSE IF tot = None
                 THEN [loc EXCEPT !.jmppc = dest, !.panic = TRUE]
                 ELSE [loc EXCEPT !.jmppc = dest,
                                  !.total_brash = Unwrap(tot) + 2,
                                  !.is_insert = pc \notin Unwrap(set),
                                  !.is_insert_jumpi = dest \notin Unwrap(set)]

\* The match on the opcode under the instruction pointer.
StepLocals(address, pc, opcode, stack) ==
    IF opcode = JUMP THEN JumpArm(address, pc)
    ELSE IF opcode = JUMPI THEN JumpiArm(address, pc, stack)
    ELSE [panic |-> FALSE, is_insert |-> FALSE, is_insert_jumpi |-> FALSE,
          total_brash |-> 1, jmppc |-> 0]

\* CommitTotal with the second block adding its 2 again instead of being
\* skipped when the first block ran.
CommitTotalTwice(address, loc) ==
    LET t1 == IF loc.is_insert
              THEN Insert(total_instr, address, loc.total_brash)
              ELSE total_instr
    IN  IF loc.is_insert_jumpi
        THEN Insert(t1, address, (IF loc.is_insert THEN loc.total_brash + 2 ELSE loc.total_brash))
        ELSE t1

\* CommitTotal without the store of the first block: the total is written
\* only when the destination of a JUMPI is new.
CommitTotalJumpiOnly(address, loc) ==
    IF loc.is_insert_jumpi
    THEN Insert(total_instr, address, loc.total_brash)
    ELSE total_instr

\* total_instr after the two commit blocks.
CommitTotal(address, loc) ==
    LET t1 == IF loc.is_insert
              THEN Insert(total_instr, address, loc.total_brash)
              ELSE total_instr
    IN  IF loc.is_insert_jumpi /\ ~loc.is_insert
        THEN Insert(t1, address, loc.total_brash)
        ELSE t1

\* total_instr_set after the two commit blocks.
CommitSet(address, pc, loc) ==
    LET s1 == IF loc.is_insert
              THEN EntryInsert(total_instr_set, address, pc)
              ELSE total_instr_set
    IN  IF loc.is_insert_jumpi
        THEN EntryInsert(s1, address, loc.jmppc)
        ELSE s1

\* The interpreter handed to a hook: interp.contract.address,
\* interp.program_counter(), the opcode under interp.instruction_pointer and
\* interp.stack.
Interp(address, pc, opcode, stack) ==
    [address |-> address, pc |-> pc, op |-> opcode, stack |-> stack]

\* The interpreter before it has been handed to on_step.
InterpIdle == Interp("none", 0, 0, <<>>)

\* StackAfterPeek taking the word off the stack (a pop).
StackAfterPop(stack) ==
    IF Len(stack) = 0 THEN stack ELSE SubSeq(stack, 1, Len(stack) - 1)

\* interp.stack after peek(0): peek borrows the stack and returns a copy of
\* the word.
StackAfterPeek(stack) == stack

\* The interpreter as on_step leaves it: address, program counter and
\* opcode are read only, and the JUMPI arm alone touches the stack.
InterpAfterStep(address, pc, opcode, stack) ==
    Interp(address, pc, opcode,
           IF opcode = JUMPI THEN StackAfterPeek(stack) ELSE stack)

\* on_step for the instruction at pc of the contract at address, about to
\* execute opcode on the operand stack stack.
on_step(address, pc, opcode, stack) ==
    LET loc == StepLocals(address, pc, opcode, stack)
    IN  /\ ~aborted
        /\ scan.at = "idle"
        /\ calls < MaxCalls
        /\ calls' = calls + 1
        /\ interp' = InterpAfterStep(address, pc, opcode, stack)
        /\ pc_coverage' = EntryInsert(pc_coverage, address, pc)
        /\ IF loc.panic
           THEN /\ aborted' = TRUE
                /\ UNCHANGED <<total_instr, total_instr_set>>
           ELSE /\ total_instr' = CommitTotal(address, loc)
                /\ total_instr_set' = CommitSet(address, pc, loc)
                /\ UNCHANGED aborted
        /\ report' = [status |-> "none", lines |-> EmptyMap]
        /\ UNCHANGED files
        /\ UNCHANGED <<total_jump_branch, total_jumpi_branch, work_dir, host_code, scan>>

\* ---------------------------------------------------------------- on_insert

\* StoreBaseline adding the new counts to the ones already stored.
StoreBaselineSummed(address, total) ==
    LET was(m) == IF address \in DOMAIN m THEN m[address] ELSE 0
    IN  [jump |-> Insert(total_jump_branch, address, was(total_jump_branch) + total[1]),
         jumpi |-> Insert(total_jumpi_branch, address, was(total_jumpi_branch) + total[2])]

\* The two baseline maps after total = branch_pc(bytecode) is stored.
StoreBaseline(address, total) ==
    [jump |-> Insert(total_jump_branch, address, total[1]),
     jumpi |-> Insert(total_jumpi_branch, address, total[2])]

\* on_insert: the host installs bytecode at address; its report directory
\* is dir.
on_insert(bytecode, address, dir) ==
    LET total == branch_pc(bytecode)
    IN  /\ ~aborted
        /\ scan.at = "idle"
        /\ calls < MaxCalls
        /\ calls' = calls + 1
        /\ work_dir' = dir
        /\ host_code' = Insert(host_code, address, bytecode)
        /\ IF total = None
           THEN /\ aborted' = TRUE
                /\ UNCHANGED <<total_jump_branch, total_jumpi_branch>>
           ELSE /\ total_jump_branch' = StoreBaseline(address, Unwrap(total)).jump
                /\ total_jumpi_branch' = StoreBaseline(address, Unwrap(total)).jumpi
                /\ UNCHANGED aborted
        /\ report' = [status |-> "none", lines |-> EmptyMap]
        /\ UNCHANGED files
        /\ UNCHANGED <<pc_coverage, total_instr, total_instr_set, scan, interp>>

\* ------------------------------------------------- record_branch_coverage

\* Per without the test for a zero total: per keeps its initial 0.0.
PerZeroIsZero(cov, total) ==
    IF total = 0 THEN 0
    ELSE ((2 * cov * 10000) + total) \div (2 * total)

\* per, in hundredths of a percent as {:.2} prints it: cov / total * 100
\* rounded to two decimals (no total of the model makes the third decimal
\* an exact 5).
Per(cov, total) ==
    IF total = 0 THEN 10000
    ELSE ((2 * cov * 10000) + total) \div (2 * total)

\* The addresses the report iterates: self.total_instr.keys().
ReportKeys == DOMAIN total_instr

\* ReportCov reading the number of visited offsets instead.
ReportCovVisited(k) ==
    IF k \in DOMAIN pc_coverage THEN Some(Cardinality(pc_coverage[k])) ELSE None

\* The numerator the report prints for k: let cov = ...
ReportCov(k) == Get(total_instr, k)

\* The closure mapped over the keys: the line of k, or None when one of its
\* unwraps panics.
ReportLine(k) ==
    LET j == Get(total_jump_branch, k)
        ji == Get(total_jumpi_branch, k)
        cov == ReportCov(k)
    IN  IF j = None \/ ji = None \/ cov = None
        THEN None
        ELSE LET total == Unwrap(j) + Unwrap(ji)
             IN  Some([cov |-> Unwrap(cov), total |-> total,
                       per |-> Per(Unwrap(cov), total)])

\* Decimal digits of n.
RECURSIVE Digits(_)
Digits(n) == IF n < 10 THEN 1 ELSE 1 + Digits(n \div 10)

\* Characters of one line: "Contract: {:?}, format Coverage: {} / {} ({:.2}%)"
\* with the address printed as 0x and 40 hex digits.
LineLen(l) ==
    10 + 42 + 19 + Digits(l.cov) + 3 + Digits(l.total) + 2
        + (Digits(l.per \div 100) + 3) + 2

RECURSIVE SumLineLen(_, _)
SumLineLen(lines, ks) ==
    IF ks = {} THEN 0
    ELSE LET k == CHOOSE x \in ks : TRUE
         IN  LineLen(lines[k]) + SumLineLen(lines, ks \ {k})

\* data.len(): the banner and its newline, then the lines joined by "\n".
TextLen(lines) ==
    LET n == Cardinality(DOMAIN lines)
    IN  63 + SumLineLen(lines, DOMAIN lines) + (IF n = 0 THEN 0 ELSE n - 1)

\* format!("{}/branch_cov_{}.txt", self.work_dir, secs)
ReportPath(dir, secs) == [dir |-> dir, secs |-> secs]

\* The file at path after it is opened with write(true).append(false)
\* .create(true) and data is written from its start: data, followed by what
\* the file held beyond data's length (stale counts those bytes).
WriteAll(fs, path, data) ==
    LET old == IF path \in DOMAIN fs THEN TextLen(fs[path].data) + fs[path].stale ELSE 0
        new == TextLen(data)
    IN  Insert(fs, path, [data |-> data, stale |-> IF old > new THEN old - new ELSE 0])

\* record_branch_coverage when the clock reads secs and the file system
\* lets the file be opened and written (io_ok) or not.
record_branch_coverage(secs, io_ok) ==
    /\ ~aborted
    /\ scan.at = "idle"
    /\ calls < MaxCalls
    /\ calls' = calls + 1
    /\ IF \E k \in ReportKeys : ReportLine(k) = None
       THEN /\ report' = [status |-> "panic", lines |-> EmptyMap]
            /\ aborted' = TRUE
            /\ UNCHANGED files
       ELSE LET data == [k \in ReportKeys |-> Unwrap(ReportLine(k))]
            IN  IF io_ok
                THEN /\ report' = [status |-> "ok", lines |-> data]
                     /\ files' = WriteAll(files, ReportPath(work_dir, secs), data)
                     /\ UNCHANGED aborted
                ELSE /\ report' = [status |-> "io_panic", lines |-> data]
                     /\ aborted' = TRUE
                     /\ UNCHANGED files
    /\ UNCHANGED <<tracker, host_code, scan, interp>>

\* ------------------------------------------------------------ specifications

\* BranchCoverage::new(), no scan running.
Init ==
    /\ pc_coverage = EmptyMap
    /\ total_instr = EmptyMap
    /\ total_instr_set = EmptyMap
    /\ total_jump_branch = EmptyMap
    /\ total_jumpi_branch = EmptyMap
    /\ work_dir = "work_dir"
    /\ host_code = EmptyMap
    /\ report = [status |-> "none", lines |-> EmptyMap]
    /\ files = EmptyMap
    /\ aborted = FALSE
    /\ calls = 0
    /\ scan = ScanIdle
    /\ interp = InterpIdle

OnStep == \E address \in Address, pc \in Offsets, ins \in Presented :
    on_step(address, pc, ins.opcode, ins.stack)

OnInsert == \E bytecode \in Codes, address \in Address, dir \in WorkDirs :
    on_insert(bytecode, address, dir)

Report == \E secs \in Seconds, io_ok \in BOOLEAN :
    record_branch_coverage(secs, io_ok)

Next == OnStep \/ OnInsert \/ Report

\* The tracker under any sequence of hook calls.
Spec == Init /\ [][Next]_vars

\* A report file left in the report directories by an earlier run: the
\* banner and one address line, at the path of second 0.
LeftoverFiles ==
    [p \in {ReportPath(d, 0) : d \in {"work_dir"} \cup WorkDirs} |->
        [data |-> [k \in {"X"} |-> [cov |-> 1, total |-> 1, per |-> 10000]],
         stale |-> 0]]

\* BranchCoverage::new() on a file system that is empty or holds the
\* leftover files.
FilesInit ==
    /\ pc_coverage = EmptyMap
    /\ total_instr = EmptyMap
    /\ total_instr_set = EmptyMap
    /\ total_jump_branch = EmptyMap
    /\ total_jumpi_branch = EmptyMap
    /\ work_dir = "work_dir"
    /\ host_code = EmptyMap
    /\ report = [status |-> "none", lines |-> EmptyMap]
    /\ files \in {EmptyMap, LeftoverFiles}
    /\ aborted = FALSE
    /\ calls = 0
    /\ scan = ScanIdle
    /\ interp = InterpIdle

\* The tracker under any sequence of hook calls, started on either file
\* system.
FilesSpec == FilesInit /\ [][Next]_vars

\* A call of branch_pc on any buffer of at most MaxLen bytes.
ScanInit ==
    /\ pc_coverage = EmptyMap
    /\ total_instr = EmptyMap
    /\ total_instr_set = EmptyMap
    /\ total_jump_branch = EmptyMap
    /\ total_jumpi_branch = EmptyMap
    /\ work_dir = "work_dir"
    /\ host_code = EmptyMap
    /\ report = [status |-> "none", lines |-> EmptyMap]
    /\ files = EmptyMap
    /\ aborted = FALSE
    /\ calls = 0
    /\ scan \in {ScanStart(b) : b \in ByteSeqs}
    /\ interp = InterpIdle

\* The loop test succeeds and the next byte is fetched.
ScanFetch ==
    /\ scan.at = "while"
    /\ LoopCond(scan)
    /\ scan' = ScanStep(scan)
    /\ UNCHANGED <<tracker, host_code, report, files, aborted, calls, interp>>

\* The fetched byte is decoded.
ScanDecode ==
    /\ scan.at = "decode"
    /\ scan' = ScanStep(scan)
    /\ UNCHANGED <<tracker, host_code, report, files, aborted, calls, interp>>

\* The loop test fails and branch_pc returns.
ScanReturn ==
    /\ scan.at = "while"
    /\ ~LoopCond(scan)
    /\ scan' = ScanStep(scan)
    /\ UNCHANGED <<tracker, host_code, report, files, aborted, calls, interp>>

ScanNext == ScanFetch \/ ScanDecode \/ ScanReturn

\* branch_pc runs to completion once called: its loop is synchronous code.
ScanSpec == ScanInit /\ [][ScanNext]_vars /\ WF_vars(ScanNext)


\* ------------------------------------------------------------------ claims

\* The report has just been rendered (its text reached standard output).
Rendered == report.status \in {"ok", "io_panic"}

\* C1 (as stated): whenever the report is rendered and written, the addresses it lists
\* are exactly the addresses with a static baseline (the registered ones),
\* whether or not on_step ever touched them.
C1_ListedIffRegistered ==
    report.status = "ok" => DOMAIN report.lines = DOMAIN total_jump_branch

\* C2 (as stated): rendering never fails on an absent per-address entry, and
\* with no registered address the report is the banner alone.
C2_ReportNeverLooksUpAbsent ==
    /\ report.status # "panic"
    /\ (Rendered /\ DOMAIN total_jump_branch = {}) => report.lines = EmptyMap

RefInstrLen(o) == IF o \in 96..127 THEN 1 + (o - 95) ELSE 1

\* The 1-based positions of b at which an instruction starts, from k on.
RECURSIVE RefStarts(_, _)
RefStarts(b, k) ==
    IF k > Len(b) THEN {}
    ELSE {k} \cup RefStarts(b, k + RefInstrLen(b[k]))

RefCount(b) ==
    <<Cardinality({k \in RefStarts(b, 1) : b[k] = 86}),
      2 * Cardinality({k \in RefStarts(b, 1) : b[k] = 87})>>

\* C4: when branch_pc returns, its two counters are those of the reference
\* decoder, so a JUMP or JUMPI byte inside a push operand counts for nothing.
C4_ScanMatchesReference ==
    scan.at = "done" =>
        /\ <<scan.JUMPCount, scan.JUMPICount>> = RefCount(scan.bytes)
        /\ branch_pc(scan.bytes) = Some(RefCount(scan.bytes))

\* C4 witness: a finished scan of a buffer with a JUMP byte inside a push
\* operand and one JUMP and one JUMPI outside.
C4_Witness ==
    /\ scan.at = "done"
    /\ scan.bytes = <<PUSH1, JUMP, JUMP, JUMPI>>
    /\ scan.JUMPCount = 1
    /\ scan.JUMPICount = 2

\* C5 (as stated): the scan cursor never exceeds the buffer length.
C5_CursorWithinBuffer == scan.i <= Len(scan.bytes)

\* C5 (amended): the cursor exceeds the buffer length only right after a
\* push whose declared operand runs past the end; it then stands at most 32
\* beyond the length, the opcode itself was inside the buffer, and no byte
\* is read there.
C5_CursorOvershootBounded ==
    /\ scan.i <= Len(scan.bytes) + 32
    /\ scan.at = "decode" => scan.i <= Len(scan.bytes)
    /\ scan.at # "panic"
    /\ scan.i > Len(scan.bytes) =>
        /\ scan.at \in {"while", "done"}
        /\ scan.op \in 96..127
        /\ scan.i - (scan.op - 95) <= Len(scan.bytes)

\* C5 witness: the scan ended with the cursor 32 beyond the buffer.
C5_Witness ==
    /\ scan.at = "done"
    /\ scan.i = Len(scan.bytes) + 32

\* What C6 asks of every state of a scan: no panic, every byte read at an
\* index below the buffer length, and, once the scan returned after a
\* truncated push, counters equal to those of the bytes before that push.
C6_Safe ==
    /\ scan.at # "panic"
    /\ scan.at = "decode" =>
        /\ scan.i - 1 < Len(scan.bytes)
        /\ scan.op = scan.bytes[scan.i]
    /\ (scan.at = "done" /\ scan.i > Len(scan.bytes)) =>
        Some(<<scan.JUMPCount, scan.JUMPICount>>)
            = branch_pc(SubSeq(scan.bytes, 1, scan.i - (scan.op - 95) - 1))

\* C6: every scan terminates, reads only inside the buffer, raises no error
\* and does not count the bytes of a truncated tail.
C6_ScanTerminatesInBounds == [](C6_Safe) /\ <>(scan.at = "done")

\* C6 witness: a scan returned after a truncated push whose tail holds a
\* JUMP byte, with nothing counted.
C6_Witness ==
    /\ scan.at = "done"
    /\ scan.i > Len(scan.bytes)
    /\ scan.bytes[Len(scan.bytes)] = JUMP
    /\ scan.JUMPCount = 0

\* C7: no step lowers DiscoveredTotal of an address or removes its entry.
C7_TotalNonDecreasing ==
    [][\A a \in DOMAIN total_instr :
            /\ a \in DOMAIN total_instr'
            /\ total_instr'[a] >= total_instr[a]]_vars

\* C7 witness: an address whose total has grown in at least two calls.
C7_Witness == \E a \in DOMAIN total_instr : total_instr[a] > 2

\* C8: no step removes an offset from VisitedSet or DiscoveredBranchSet of
\* an address, or removes the entry.
C8_SetsAppendOnly ==
    [][/\ \A a \in DOMAIN pc_coverage :
            /\ a \in DOMAIN pc_coverage'
            /\ pc_coverage[a] \subseteq pc_coverage'[a]
       /\ \A a \in DOMAIN total_instr_set :
            /\ a \in DOMAIN total_instr_set'
            /\ total_instr_set[a] \subseteq total_instr_set'[a]]_vars

\* C8 witness: a registered address whose two sets hold several offsets each.
C8_Witness ==
    \E a \in DOMAIN host_code :
        /\ a \in DOMAIN total_instr_set
        /\ Cardinality(total_instr_set[a]) >= 2
        /\ Cardinality(pc_coverage[a]) >= 2

\* C9: the baseline of every address is the scanner's result for the code
\* last installed at it, and only installed addresses have one.
C9_BaselineIsLastRegistration ==
    /\ DOMAIN total_jump_branch = DOMAIN host_code
    /\ DOMAIN total_jumpi_branch = DOMAIN host_code
    /\ \A a \in DOMAIN host_code :
        Some(<<total_jump_branch[a], total_jumpi_branch[a]>>) = branch_pc(host_code[a])

\* C9 witness: X was registered twice and nothing else was called, Y never;
\* X's baseline is that of the code of two JUMPIs.
C9_Witness ==
    /\ calls = 2
    /\ ~aborted
    /\ pc_coverage = EmptyMap
    /\ files = EmptyMap
    /\ DOMAIN host_code = {"X"}
    /\ total_jump_branch["X"] = 0
    /\ total_jumpi_branch["X"] = 4

\* DiscoveredBranchSet and DiscoveredTotal of a, absent entries read as the
\* empty set and 0.
C10_Set(a) == IF a \in DOMAIN total_instr_set THEN total_instr_set[a] ELSE {}

C10_Total(a) == IF a \in DOMAIN total_instr THEN total_instr[a] ELSE 0

\* C10, the rule: a JUMPI step at o with destination d adds 2 to the total
\* once and inserts the new ones of o and d when one of them is new, and
\* changes neither map otherwise.
C10_Rule ==
    \A a \in Address, o \in Offsets, s \in Stacks \ {<<>>} :
        on_step(a, o, JUMPI, s) =>
            LET d == s[Len(s)].lo
            IN  IF o \notin C10_Set(a) \/ d \notin C10_Set(a)
                THEN /\ total_instr'[a] = C10_Total(a) + 2
                     /\ total_instr_set'[a] = C10_Set(a) \cup {o, d}
                ELSE UNCHANGED <<total_instr, total_instr_set>>

\* C10, Scenario A in both orders from a fresh address: a JUMP step at 10
\* and a JUMPI step at 20 with destination 5.
C10_Scenario ==
    \A a \in Address :
        LET dest5 == <<[lo |-> 5, hi |-> 0]>>
            fresh == a \notin DOMAIN total_instr_set /\ a \notin DOMAIN total_instr
            is(S, n) == C10_Set(a) = S /\ C10_Total(a) = n
            becomes(S, n) == total_instr_set'[a] = S /\ total_instr'[a] = n
        IN  /\ (fresh /\ on_step(a, 10, JUMP, dest5)) => becomes({10}, 1)
            /\ (is({10}, 1) /\ on_step(a, 20, JUMPI, dest5)) => becomes({5, 10, 20}, 3)
            /\ (fresh /\ on_step(a, 20, JUMPI, dest5)) => becomes({5, 20}, 2)
            /\ (is({5, 20}, 2) /\ on_step(a, 10, JUMP, dest5)) => becomes({5, 10, 20}, 3)

\* C10: the JUMPI rule and Scenario A hold of every step.
C10_JumpiAddsTwoOnce == [][C10_Rule /\ C10_Scenario]_vars

\* C10 witness: Scenario A has run on X: two steps, at 10 and 20, left the
\* set {5, 10, 20} and the total 3.
C10_Witness ==
    /\ calls = 2
    /\ pc_coverage = [a \in {"X"} |-> {10, 20}]
    /\ total_instr_set = [a \in {"X"} |-> {5, 10, 20}]
    /\ total_instr = [a \in {"X"} |-> 3]

\* C11: on_step leaves the interpreter as it was handed over: same address,
\* program counter, opcode under the instruction pointer and operand stack
\* (contents and depth), for every opcode and in particular for a JUMPI,
\* whose destination is peeked, not popped.
C11_HookLeavesInterpreter ==
    [][\A a \in Address, o \in Offsets, ins \in Presented :
          on_step(a, o, ins.opcode, ins.stack) =>
              interp' = Interp(a, o, ins.opcode, ins.stack)]_vars

\* C11 witness: a JUMPI step read its destination off a stack of one word
\* and recorded it, and the word is still on the stack.
C11_Witness ==
    /\ interp.op = JUMPI
    /\ Len(interp.stack) = 1
    /\ interp.address \in DOMAIN total_instr_set
    /\ as_u64(interp.stack[1]) \in total_instr_set[interp.address]
    /\ as_u64(interp.stack[1]) # interp.pc

\* C12: every line the renderer emits for an address whose denominator
\* (JUMP count plus JUMPI edge count) is 0 reports 100.00%, whatever its
\* numerator.
C12_ZeroDenominatorIsFull ==
    Rendered =>
        \A k \in DOMAIN report.lines :
            report.lines[k].total = 0 => report.lines[k].per = 10000

\* C12 witness: a report was written with a line whose denominator is 0 and
\* whose numerator is not.
C12_Witness ==
    /\ report.status = "ok"
    /\ \E k \in DOMAIN report.lines :
           report.lines[k].total = 0 /\ report.lines[k].cov >= 2

\* C13: after every successful render at second secs the file
\* work_dir/branch_cov_secs.txt holds exactly the report text of that call
\* and nothing after it, whether the file was absent, or present with
\* shorter or longer content.
C13_FileHoldsExactlyTheReport ==
    [][\A secs \in Seconds :
          (record_branch_coverage(secs, TRUE) /\ report'.status = "ok") =>
              files'[ReportPath(work_dir, secs)] = [data |-> report'.lines, stale |-> 0]]_vars

\* C14: every successful render writes a path that no earlier render of the
\* run wrote (the file system starts empty, so the paths in it are those
\* the earlier renders wrote): an earlier report file is never overwritten.
C14_EveryRenderWritesItsOwnFile ==
    [][\A secs \in Seconds :
          (record_branch_coverage(secs, TRUE) /\ report'.status = "ok") =>
              ReportPath(work_dir, secs) \notin DOMAIN files]_vars

\* C15: every on_step call returns without aborting, for every address,
\* offset, opcode and operand stack the interpreter presents, a JUMPI on the
\* empty stack and a first call for an unknown address included.
C15_HookNeverAborts ==
    [][\A a \in Address, o \in Offsets, ins \in Presented :
          on_step(a, o, ins.opcode, ins.stack) => ~aborted']_vars

\* C16: a JUMP step at offset o of address a sets the total to 1 and the
\* set to {o} when a has no set entry, adds 1 to the total and o to the set
\* when o is not in the set, and changes neither otherwise; the destination
\* on the stack is never inserted.
C16_JumpAddsOneOnce ==
    [][\A a \in Address, o \in Offsets :
          \A ins \in {p \in Presented : p.opcode = JUMP} :
              on_step(a, o, JUMP, ins.stack) =>
                  IF a \notin DOMAIN total_instr_set
                  THEN /\ total_instr'[a] = 1
                       /\ total_instr_set'[a] = {o}
                  ELSE IF o \notin total_instr_set[a]
                  THEN /\ total_instr'[a] = total_instr[a] + 1
                       /\ total_instr_set'[a] = total_instr_set[a] \cup {o}
                  ELSE UNCHANGED <<total_instr, total_instr_set>>]_vars

\* C16 witness: JUMP steps at two offsets of one address brought its total
\* to 2, and the destination on the stack is not in its set.
C16_Witness ==
    /\ interp.op = JUMP
    /\ interp.address \in DOMAIN total_instr_set
    /\ total_instr[interp.address] = 2
    /\ Cardinality(total_instr_set[interp.address]) = 2
    /\ interp.pc \in total_instr_set[interp.address]
    /\ as_u64(interp.stack[1]) \notin total_instr_set[interp.address]

\* C17: an on_step call for address a at offset o leaves both baseline
\* maps, work_dir and every map entry of the other addresses as they were;
\* when the opcode is neither JUMP nor JUMPI it inserts o into
\* pc_coverage[a] and leaves total_instr and total_instr_set unchanged.
C17_StepFrame ==
    [][\A a \in Address, o \in Offsets, ins \in Presented :
          on_step(a, o, ins.opcode, ins.stack) =>
              /\ UNCHANGED <<total_jump_branch, total_jumpi_branch, work_dir>>
              /\ \A b \in Address \ {a} :
                     /\ Get(pc_coverage', b) = Get(pc_coverage, b)
                     /\ Get(total_instr', b) = Get(total_instr, b)
                     /\ Get(total_instr_set', b) = Get(total_instr_set, b)
              /\ ins.opcode \notin {JUMP, JUMPI} =>
                     /\ pc_coverage'[a] =
                            (IF a \in DOMAIN pc_coverage THEN pc_coverage[a] ELSE {}) \cup {o}
                     /\ UNCHANGED <<total_instr, total_instr_set>>]_vars

\* C17 witness: after a JUMP step of one address, a step of another opcode
\* ran for the other address, which has a visited offset and no branch
\* entry.
C17_Witness ==
    /\ report.status = "none"
    /\ interp.op \notin {JUMP, JUMPI}
    /\ interp.address \in DOMAIN pc_coverage
    /\ interp.pc \in pc_coverage[interp.address]
    /\ interp.address \notin DOMAIN total_instr_set
    /\ \E b \in DOMAIN total_instr_set : b \in DOMAIN pc_coverage

\* C18: in every reachable state the total of every address with a
\* discovered-branch set is at least the number of offsets in that set.
C18_TotalAtLeastSetSize ==
    \A a \in DOMAIN total_instr_set :
        /\ a \in DOMAIN total_instr
        /\ total_instr[a] >= Cardinality(total_instr_set[a])

\* C18 witness: an address whose set holds two offsets and whose total is
\* larger than that.
C18_Witness ==
    \E a \in DOMAIN total_instr_set :
        /\ Cardinality(total_instr_set[a]) = 2
        /\ total_instr[a] > 2

\* C19: total_instr and total_instr_set have the same keys, every set entry
\* is non-empty and its address has a non-empty pc_coverage entry; hence
\* no on_step call aborts on the total_instr lookup that follows a found
\* set entry (the one abort of on_step is the JUMPI on an empty stack).
C19_BranchMapsAgree ==
    /\ DOMAIN total_instr = DOMAIN total_instr_set
    /\ \A a \in DOMAIN total_instr_set :
           /\ total_instr_set[a] # {}
           /\ a \in DOMAIN pc_coverage
           /\ pc_coverage[a] # {}
    /\ (aborted /\ report.status = "none") =>
           (interp.op = JUMPI /\ interp.stack = <<>>)

\* C19 witness: an address whose set entry was found by a later step, which
\* read its total and raised it to 3.
C19_Witness ==
    /\ ~aborted
    /\ \E a \in DOMAIN total_instr_set :
           /\ total_instr[a] = 3
           /\ Cardinality(pc_coverage[a]) = 2

\* C20: on_step is idempotent on a repeated observation: when the last
\* on_step call was made for (address, offset, opcode, stack) and the same
\* call is made again, the second call leaves pc_coverage, total_instr_set
\* and total_instr as the first left them.
C20_RepeatedStepChangesNothing ==
    [][\A a \in Address, o \in Offsets, ins \in Presented :
          (/\ interp = Interp(a, o, ins.opcode, ins.stack)
           /\ on_step(a, o, ins.opcode, ins.stack)) =>
              UNCHANGED <<pc_coverage, total_instr_set, total_instr>>]_vars

\* C20 witness: two calls, both on_step at one offset of one address, the
\* last a JUMPI with its destination on the stack: the total is the 2 of
\* one JUMPI.
C20_Witness ==
    /\ calls = 2
    /\ host_code = EmptyMap
    /\ files = EmptyMap
    /\ report.status = "none"
    /\ interp.op = JUMPI
    /\ Len(interp.stack) = 1
    /\ pc_coverage = [a \in {interp.address} |-> {interp.pc}]
    /\ total_instr = [a \in {interp.address} |-> 2]
    /\ total_instr_set = [a \in {interp.address} |-> {interp.pc, as_u64(interp.stack[1])}]

====
